---- MODULE Spec2Model ----
(***************************************************************************)
(* Model of the Typst-to-LaTeX math converter (src/main.rs): the string    *)
(* clean-up done by convert_typst_to_latex, the render sub-pipeline        *)
(* output_to_texture / svg_to_texture, and the MyApp state that the        *)
(* handlers of MyApp::update change.  Text is modelled character by        *)
(* character, as a sequence of one-character strings.  The external        *)
(* converter (pandoc), mathjax_svg, usvg and the clipboard are the         *)
(* environment: each call returns one of the outcomes its signature        *)
(* allows.                                                                 *)
(***************************************************************************)
EXTENDS Integers, Sequences, FiniteSets, TLC

VARIABLES input, output, texture, clipboard, copy_enabled, last

vars == <<input, output, texture, clipboard, copy_enabled, last>>

(***************************************************************************)
(* Bounds of the model.                                                    *)
(***************************************************************************)
\* longest converter stdout / stderr, in tokens, an event of Spec carries
MaxOut == 2
MaxErr == 2
\* longest hand-edited output text, in tokens
MaxEdit == 2
\* longest converter stdout / stderr, in tokens, a conversion of SpecConv carries
MaxBigOut == 6
MaxBigErr == 6

(***************************************************************************)
(* Option<T>: None is the empty tuple, Some(x) the one-element tuple.      *)
(***************************************************************************)
None == << >>

Some(x) == <<x>>

(***************************************************************************)
(* Literals of the source.                                                 *)
(***************************************************************************)
\* r"\["
LBr == <<"\\", "[">>

\* r"\]"
RBr == <<"\\", "]">>

\* "Error"
ErrorLit == <<"E", "r", "r", "o", "r">>

\* "Error: "
ErrorColon == <<"E", "r", "r", "o", "r", ":", " ">>

MsgSpawn == <<"F", "a", "i", "l", "e", "d", " ", "t", "o", " ", "e", "x", "e", "c", "u", "t", "e", " ", "p", "a", "n", "d", "o", "c", ".", " ", "D", "o", " ", "y", "o", "u", " ", "h", "a", "v", "e", " ", "i", "t", " ", "i", "n", "s", "t", "a", "l", "l", "e", "d", "?">>

MsgWrite == <<"F", "a", "i", "l", "e", "d", " ", "t", "o", " ", "w", "r", "i", "t", "e", " ", "t", "o", " ", "s", "t", "d", "i", "n">>

MsgRead == <<"F", "a", "i", "l", "e", "d", " ", "t", "o", " ", "r", "e", "a", "d", " ", "s", "t", "d", "o", "u", "t", " ", "a", "n", "d", " ", "s", "t", "d", "e", "r", "r">>

\* let scale = 5.0
scale == 5

(***************************************************************************)
(* str methods used by the source.                                         *)
(***************************************************************************)
\* char::is_whitespace, on the characters the model uses
is_whitespace(c) == c \in {" ", "\n", "\t"}

\* str::starts_with
starts_with(s, pat) ==
    /\ Len(s) >= Len(pat)
    /\ SubSeq(s, 1, Len(pat)) = pat

\* str::ends_with
ends_with(s, pat) ==
    /\ Len(s) >= Len(pat)
    /\ SubSeq(s, Len(s) - Len(pat) + 1, Len(s)) = pat

RECURSIVE trim_start(_)
trim_start(s) ==
    IF s # << >> /\ is_whitespace(Head(s)) THEN trim_start(Tail(s)) ELSE s

RECURSIVE trim_end(_)
trim_end(s) ==
    IF s # << >> /\ is_whitespace(s[Len(s)])
    THEN trim_end(SubSeq(s, 1, Len(s) - 1))
    ELSE s

\* str::trim
trim(s) == trim_end(trim_start(s))

\* str::strip_prefix-like slip: at most one occurrence removed
trim_start_matches_once(s, pat) ==
    IF starts_with(s, pat) THEN SubSeq(s, Len(pat) + 1, Len(s)) ELSE s

\* str::trim_start_matches removes the prefix repeatedly while it matches once more
RECURSIVE trim_start_matches(_, _)
trim_start_matches(s, pat) ==
    IF starts_with(s, pat)
    THEN trim_start_matches(SubSeq(s, Len(pat) + 1, Len(s)), pat)
    ELSE s

\* str::trim_end_matches removes the suffix repeatedly while it matches once more
RECURSIVE trim_end_matches(_, _)
trim_end_matches(s, pat) ==
    IF ends_with(s, pat)
    THEN trim_end_matches(SubSeq(s, 1, Len(s) - Len(pat)), pat)
    ELSE s

\* str::split_once(":") as an Option of the pair (before, after)
RECURSIVE split_once_from(_, _, _)
split_once_from(s, i, c) ==
    IF i > Len(s) THEN None
    ELSE IF s[i] = c THEN Some(<<SubSeq(s, 1, i - 1), SubSeq(s, i + 1, Len(s))>>)
    ELSE split_once_from(s, i + 1, c)

\* str::rsplit_once-like slip: the last separator instead of the first
RECURSIVE rsplit_once_from(_, _, _)
rsplit_once_from(s, i, c) ==
    IF i < 1 THEN None
    ELSE IF s[i] = c THEN Some(<<SubSeq(s, 1, i - 1), SubSeq(s, i + 1, Len(s))>>)
    ELSE rsplit_once_from(s, i - 1, c)

rsplit_once(s, c) == rsplit_once_from(s, Len(s), c)

split_once(s, c) == split_once_from(s, 1, c)

\* Option::unwrap_or_else
unwrap_or_else(opt, dflt) == IF opt = None THEN dflt ELSE opt[1]

(***************************************************************************)
(* convert_typst_to_latex (lines 11-50).  `run` is what the spawned        *)
(* converter does with the payload "$\n" + input + "\n$":                  *)
(*   kind "spawn_fail"  Command::spawn fails, no child exists              *)
(*   kind "write_fail"  write_all on the child's stdin fails               *)
(*   kind "wait_fail"   wait_with_output fails (its wait on the child)     *)
(*   kind "exit"        the child exits with `status`, `stdout`, `stderr`  *)
(* The result is [ok, val, child]: Ok(val) or Err(val), and whether the    *)
(* child was reaped when the function returned ("none": never spawned).    *)
(***************************************************************************)
Ok(v, c) == [ok |-> TRUE, val |-> v, child |-> c]

Err(v, c) == [ok |-> FALSE, val |-> v, child |-> c]

\* the success branch without the two delimiter calls
clean_stdout_nostrip(stdout) == trim(trim(stdout))

\* lines 35-40
clean_stdout(stdout) ==
    trim(trim_end_matches(trim_start_matches(trim(stdout), LBr), RBr))

\* lines 42-48
clean_stderr(error) ==
    trim(unwrap_or_else(split_once(error, ":"), << << >>, error>>)[2])

convert_typst_to_latex(run) ==
    IF run.kind = "spawn_fail" THEN Err(MsgSpawn, "none")
    ELSE IF run.kind = "write_fail" THEN Err(MsgWrite, "unreaped")
    ELSE IF run.kind = "wait_fail" THEN Err(MsgRead, "unreaped")
    ELSE IF run.status = 0 THEN Ok(clean_stdout(run.stdout), "reaped")
    ELSE Err(clean_stderr(run.stderr), "reaped")

(***************************************************************************)
(* svg_to_texture (lines 60-84).  An svg text is what usvg makes of it:    *)
(* unparsable, or a tree of natural size w x h, in tenths of a unit.       *)
(* A texture records the text it was rasterized from, its pixel size and   *)
(* whether its colours were inverted.                                      *)
(***************************************************************************)
\* f32 as u32 of size * scale, the size given in tenths
as_u32(tenths) == (tenths * scale) \div 10

\* tiny_skia::Pixmap::new is None when a dimension is zero
Pixmap_new(width, height) ==
    IF width = 0 \/ height = 0 THEN None ELSE Some([w |-> width, h |-> height])

svg_to_texture(src, svg, dark_mode) ==
    IF ~svg.valid THEN [ok |-> FALSE, err |-> "svg_err", texture |-> None]
    ELSE LET width == as_u32(svg.w)
             height == as_u32(svg.h)
             pixmap == Pixmap_new(width, height)
         IN IF pixmap = None
            THEN [ok |-> FALSE, err |-> "pixmap_err", texture |-> None]
            ELSE [ok |-> TRUE, err |-> "ok",
                  texture |-> Some([src |-> src, w |-> width, h |-> height,
                                    inverted |-> dark_mode])]

(***************************************************************************)
(* The closure output_to_texture (lines 129-143), on the fields of obj it  *)
(* reads and writes.  mj is the result of mathjax_svg::convert_to_svg.     *)
(* The result also says whether the rasterizer was invoked and how the     *)
(* attempt ended.                                                          *)
(***************************************************************************)
Rendered(tex, ce, called, how) ==
    [texture |-> tex, copy_enabled |-> ce, called |-> called, render |-> how]

\* the guard without the "Error" test
output_to_texture_noguard(out, tex, ce, mj, dark_mode) ==
    IF out = << >> THEN Rendered(tex, ce, FALSE, "skipped")
    ELSE IF mj.ok
    THEN LET t == svg_to_texture(out, mj.svg, dark_mode)
         IN IF t.ok THEN Rendered(t.texture, TRUE, TRUE, "ok")
            ELSE Rendered(tex, ce, TRUE, t.err)
    ELSE Rendered(tex, ce, TRUE, "latex_err")

\* the flag set beside the inner if instead of inside it
output_to_texture_flag(out, tex, ce, mj, dark_mode) ==
    IF starts_with(out, ErrorLit) \/ out = << >>
    THEN Rendered(tex, ce, FALSE, "skipped")
    ELSE IF mj.ok
    THEN LET t == svg_to_texture(out, mj.svg, dark_mode)
         IN IF t.ok THEN Rendered(t.texture, TRUE, TRUE, "ok")
            ELSE Rendered(tex, TRUE, TRUE, t.err)
    ELSE Rendered(tex, ce, TRUE, "latex_err")

output_to_texture(out, tex, ce, mj, dark_mode) ==
    IF starts_with(out, ErrorLit) \/ out = << >>
    THEN Rendered(tex, ce, FALSE, "skipped")
    ELSE IF mj.ok
    THEN LET t == svg_to_texture(out, mj.svg, dark_mode)
         IN IF t.ok THEN Rendered(t.texture, TRUE, TRUE, "ok")
            ELSE Rendered(tex, ce, TRUE, t.err)
    ELSE Rendered(tex, ce, TRUE, "latex_err")

(***************************************************************************)
(* The environment: the texts and call outcomes an event can carry.        *)
(***************************************************************************)
\* the texts made of at most n of the tokens T
RECURSIVE Texts(_, _)
Texts(T, n) ==
    IF n = 0 THEN {<< >>}
    ELSE {<< >>} \cup {t \o s : t \in T, s \in Texts(T, n - 1)}

\* the Typst texts typed into the input field (opaque to the program)
Inputs == {<< >>, <<"x">>}

OutTokens == {LBr, <<"x">>, ErrorLit}

ErrTokens == {<<":">>, <<"e">>}

BigErrTokens == {<<":">>, <<" ">>, <<"e">>}

EditTokens == {<<"x">>, ErrorLit, RBr}

BigOutTokens == {LBr, RBr, <<"\n">>, <<"x">>}

Exit(status, out, err) ==
    [kind |-> "exit", status |-> status, stdout |-> out, stderr |-> err]

NoRun == [kind |-> "none", status |-> 0, stdout |-> << >>, stderr |-> << >>]

Failures ==
    {[kind |-> k, status |-> 0, stdout |-> << >>, stderr |-> << >>] :
        k \in {"spawn_fail", "write_fail", "wait_fail"}}

\* what a run of the converter can do, its stdout among outs or its stderr among errs
RunsOf(outs, errs) ==
    Failures \cup {Exit(0, o, << >>) : o \in outs} \cup {Exit(1, << >>, e) : e \in errs}

Runs == RunsOf(Texts(OutTokens, MaxOut), Texts(ErrTokens, MaxErr))

BigRuns == RunsOf(Texts(BigOutTokens, MaxBigOut), Texts(BigErrTokens, MaxBigErr))

Edits == Texts(EditTokens, MaxEdit)

\* natural widths of an svg tree, in tenths of a unit: 1 gives 0 pixels
Widths == {1, 4}

\* natural heights of an svg tree, in tenths of a unit
Heights == {4}

NoSvg == [valid |-> FALSE, w |-> 0, h |-> 0]

Svgs == {NoSvg} \cup {[valid |-> TRUE, w |-> a, h |-> b] : a \in Widths, b \in Heights}

\* results of mathjax_svg::convert_to_svg
MathjaxResults ==
    {[ok |-> FALSE, svg |-> NoSvg]} \cup {[ok |-> TRUE, svg |-> g] : g \in Svgs}

(***************************************************************************)
(* `last` records what the handler of the last event did: the event, the   *)
(* converter run it started (NoRun when none) and the state of that child  *)
(* on return, whether the rasterizer was invoked, on which text, how the   *)
(* render attempt ended, and the text handed to the clipboard.             *)
(***************************************************************************)
Did(ev, run, child, called, renderIn, render, sent) ==
    [ev |-> ev, run |-> run, child |-> child, called |-> called,
     renderIn |-> renderIn, render |-> render, sent |-> sent]

\* MyApp::new
Init ==
    /\ input = << >>
    /\ output = << >>
    /\ texture = None
    /\ clipboard \in BOOLEAN
    /\ copy_enabled = FALSE
    /\ last = Did("none", NoRun, "none", FALSE, << >>, "none", None)

\* the handler without the reset of copy_enabled at its start
InputEditedFrom_flag(runs) ==
    \E new \in Inputs, run \in runs, mj \in MathjaxResults, dark_mode \in BOOLEAN :
        /\ new # input
        /\ input' = new
        /\ clipboard' = clipboard
        /\ LET res == convert_typst_to_latex(run)
           IN IF res.ok
              THEN LET r == output_to_texture(res.val, None, copy_enabled, mj, dark_mode)
                   IN /\ output' = res.val
                      /\ texture' = r.texture
                      /\ copy_enabled' = r.copy_enabled
                      /\ last' = Did("input", run, res.child, r.called,
                                     res.val, r.render, None)
              ELSE /\ output' = ErrorColon \o res.val
                   /\ texture' = None
                   /\ copy_enabled' = copy_enabled
                   /\ last' = Did("input", run, res.child, FALSE, << >>, "none", None)

\* input_response.changed(): lines 144-156
InputEditedFrom(runs) ==
    \E new \in Inputs, run \in runs, mj \in MathjaxResults, dark_mode \in BOOLEAN :
        /\ new # input
        /\ input' = new
        /\ clipboard' = clipboard
        /\ LET res == convert_typst_to_latex(run)
           IN IF res.ok
              THEN LET r == output_to_texture(res.val, None, FALSE, mj, dark_mode)
                   IN /\ output' = res.val
                      /\ texture' = r.texture
                      /\ copy_enabled' = r.copy_enabled
                      /\ last' = Did("input", run, res.child, r.called,
                                     res.val, r.render, None)
              ELSE /\ output' = ErrorColon \o res.val
                   /\ texture' = None
                   /\ copy_enabled' = FALSE
                   /\ last' = Did("input", run, res.child, FALSE, << >>, "none", None)

InputEdited == InputEditedFrom(Runs)

\* the "Copy LaTeX" button, enabled by copy_enabled: lines 163-175
Copy ==
    /\ copy_enabled
    /\ \E set_text_ok \in BOOLEAN :
        last' = Did("copy", NoRun, "none", FALSE, << >>, "none",
                    IF clipboard /\ set_text_ok THEN Some(output) ELSE None)
    /\ UNCHANGED <<input, output, texture, clipboard, copy_enabled>>

\* Clear leaving the flag as it was
Clear_flag ==
    /\ input' = << >>
    /\ output' = << >>
    /\ texture' = None
    /\ last' = Did("clear", NoRun, "none", FALSE, << >>, "none", None)
    /\ UNCHANGED <<clipboard, copy_enabled>>

\* the "Clear" button: lines 176-181
Clear ==
    /\ input' = << >>
    /\ output' = << >>
    /\ texture' = None
    /\ copy_enabled' = FALSE
    /\ clipboard' = clipboard
    /\ last' = Did("clear", NoRun, "none", FALSE, << >>, "none", None)

\* the handler keeping the old texture while it renders
OutputEdited_keep ==
    \E new \in Edits, mj \in MathjaxResults, dark_mode \in BOOLEAN :
        /\ new # output
        /\ output' = new
        /\ LET r == output_to_texture(new, texture, copy_enabled, mj, dark_mode)
           IN /\ texture' = r.texture
              /\ copy_enabled' = r.copy_enabled
              /\ last' = Did("output", NoRun, "none", r.called, new, r.render, None)
        /\ UNCHANGED <<input, clipboard>>

\* the handler running the whole pipeline again, as for an input edit
OutputEdited_reconvert ==
    \E new \in Edits, run \in Runs, mj \in MathjaxResults, dark_mode \in BOOLEAN :
        /\ new # output
        /\ LET res == convert_typst_to_latex(run)
               out == IF res.ok THEN res.val ELSE ErrorColon \o res.val
               r == output_to_texture(out, None, FALSE, mj, dark_mode)
           IN /\ output' = out
              /\ texture' = r.texture
              /\ copy_enabled' = r.copy_enabled
              /\ last' = Did("output", run, res.child, r.called, out, r.render, None)
        /\ UNCHANGED <<input, clipboard>>

\* output_response.changed(): lines 197-201
OutputEdited ==
    \E new \in Edits, mj \in MathjaxResults, dark_mode \in BOOLEAN :
        /\ new # output
        /\ output' = new
        /\ LET r == output_to_texture(new, None, FALSE, mj, dark_mode)
           IN /\ texture' = r.texture
              /\ copy_enabled' = r.copy_enabled
              /\ last' = Did("output", NoRun, "none", r.called, new, r.render, None)
        /\ UNCHANGED <<input, clipboard>>

Next == InputEdited \/ Copy \/ Clear \/ OutputEdited

Spec == Init /\ [][Next]_vars

(***************************************************************************)
(* SpecConv: every conversion starts from an empty input field (the        *)
(* initial window, or after Clear) and carries any converter run of        *)
(* BigRuns.                                                                *)
(***************************************************************************)
Convert ==
    /\ input = << >>
    /\ InputEditedFrom(BigRuns)

NextConv == Convert \/ Clear

SpecConv == Init /\ [][NextConv]_vars

(***************************************************************************)
(* Reference operators of the properties, written without the recursion    *)
(* of the model's string operators.                                        *)
(***************************************************************************)
Least(S) == CHOOSE i \in S : \A j \in S : i <= j

Greatest(S) == CHOOSE i \in S : \A j \in S : j <= i

Visible(s) == {i \in 1..Len(s) : s[i] \notin {" ", "\n", "\t"}}

\* s without its leading and trailing whitespace
Trimmed(s) ==
    IF Visible(s) = {} THEN << >> ELSE SubSeq(s, Least(Visible(s)), Greatest(Visible(s)))

Begins(s, p) == Len(s) >= Len(p) /\ \A i \in 1..Len(p) : s[i] = p[i]

Ends(s, p) == Len(s) >= Len(p) /\ \A i \in 1..Len(p) : s[Len(s) - Len(p) + i] = p[i]

\* the number of \[ delimiters t begins with
LeadRun(t) ==
    Greatest({k \in 0..(Len(t) \div 2) :
        \A i \in 1..k : t[2 * i - 1] = "\\" /\ t[2 * i] = "["})

\* the number of \] delimiters t ends with
TrailRun(t) ==
    Greatest({k \in 0..(Len(t) \div 2) :
        \A i \in 1..k : t[Len(t) - 2 * i + 1] = "\\" /\ t[Len(t) - 2 * i + 2] = "]"})

\* t without every leading \[ and every trailing \]
Core(t) == SubSeq(t, 2 * LeadRun(t) + 1, Len(t) - 2 * TrailRun(t))

\* t without one enclosing pair \[ ... \], when it has one
Unwrapped(t) ==
    IF Begins(t, LBr) /\ Ends(t, RBr) THEN SubSeq(t, 3, Len(t) - 2) ELSE t

\* the text after the first colon of e, all of e when it has none
AfterColon(e) ==
    LET colons == {i \in 1..Len(e) : e[i] = ":"}
    IN IF colons = {} THEN e ELSE SubSeq(e, Least(colons) + 1, Len(e))

Succeeded == last.ev = "input" /\ last.run.kind = "exit" /\ last.run.status = 0

Failed == last.ev = "input" /\ last.run.kind = "exit" /\ last.run.status # 0

RenderFailed == last.render \in {"latex_err", "svg_err", "pixmap_err"}

(***************************************************************************)
(* Properties.                                                             *)
(***************************************************************************)
\* C1: between user events the Copy-Enabled Flag is true if and only if a
\* Rendered Bitmap is present.
C1_FlagInSync == copy_enabled <=> (texture # None)

C1_Witness == copy_enabled /\ texture # None /\ last.ev = "copy"

\* C2: a bitmap that is present is the one rasterized from the current
\* Output Text.
C2_BitmapFresh == texture # None => texture[1].src = output

C2_Witness == last.ev = "output" /\ texture # None /\ texture[1].src = output

\* C3: after an input edit on which the converter exits non-zero, Output Text
\* is "Error: " followed by the trimmed standard-error text after its first
\* colon (all of it when it has no colon); the rasterizer was not invoked and
\* the bitmap is absent.
C3_ErrorText ==
    Failed =>
        /\ output = ErrorColon \o Trimmed(AfterColon(last.run.stderr))
        /\ ~last.called
        /\ texture = None

C3_Witness ==
    /\ Failed
    /\ last.run.stderr = <<"e", ":", " ", "e", ":", "e">>
    /\ output = ErrorColon \o <<"e", ":", "e">>

\* C4 as stated: after a successful conversion Output Text does not both
\* begin with \[ and end with \].
C4_NoPair_Original == Succeeded => ~(Begins(output, LBr) /\ Ends(output, RBr))

\* C4 as amended: after a successful conversion Output Text does not both
\* begin with \[ and end with \], provided the text left between the leading
\* \[ delimiters and the trailing \] delimiters of the trimmed standard output
\* does not both begin and end with whitespace.
C4_NoPair ==
    LET core == Core(Trimmed(last.run.stdout))
        padded == core # << >> /\ 1 \notin Visible(core) /\ Len(core) \notin Visible(core)
    IN (Succeeded /\ ~padded) => ~(Begins(output, LBr) /\ Ends(output, RBr))

C4_Witness ==
    /\ Succeeded
    /\ last.run.stdout = LBr \o <<"x">> \o RBr \o <<"\n">>
    /\ output = <<"x">>

\* C5: the Clear action yields empty Input Text, empty Output Text, no bitmap
\* and a false Copy-Enabled Flag, and invokes neither the converter nor the
\* rasterizer.
C5_Clear ==
    last.ev = "clear" =>
        /\ input = << >>
        /\ output = << >>
        /\ texture = None
        /\ ~copy_enabled
        /\ last.run = NoRun
        /\ ~last.called

C5_Witness == last.ev = "clear" /\ input = << >> /\ output = << >> /\ ~copy_enabled

\* C6: an output-edited event never invokes the converter and leaves Input
\* Text unchanged; it clears the bitmap and the flag and runs the render
\* sub-pipeline on the edited Output Text.
C6_OutputEditFrame ==
    [][last'.ev = "output" =>
        /\ input' = input
        /\ last'.run = NoRun
        /\ last'.child = "none"
        /\ last'.renderIn = output'
        /\ (texture' = None \/ texture'[1].src = output')
        /\ copy_enabled' = (texture' # None)]_vars

C6_Witness == last.ev = "output" /\ input # << >> /\ last.called /\ texture # None

\* C7: whenever the render sub-pipeline fails, the bitmap is absent, the
\* Copy-Enabled Flag is false and Output Text is what it was before the render
\* attempt.
C7_RenderFailure ==
    RenderFailed => texture = None /\ ~copy_enabled /\ output = last.renderIn

C7_Witness == last.render = "pixmap_err" /\ last.ev = "input" /\ output # << >>

\* C8 as stated: on a zero exit code the result is the trimmed standard output
\* without one enclosing \[ ... \] pair when that pair is present, trimmed
\* again.
C8_Reference_Original ==
    Succeeded => output = Trimmed(Unwrapped(Trimmed(last.run.stdout)))

\* C8 as amended: on a zero exit code the result is the trimmed standard
\* output without every leading \[ and every trailing \], each removed whether
\* or not the other is present, trimmed again.
C8_Reference ==
    Succeeded => output = Trimmed(Core(Trimmed(last.run.stdout)))

C8_Witness ==
    /\ Succeeded
    /\ last.run.stdout = LBr \o LBr \o <<"x", "\n">>
    /\ output = <<"x">>

\* C9: every converter subprocess that was spawned has been reaped when the
\* Converter Invoker returns, on every return path.
C9_ChildReaped ==
    last.run.kind \in {"write_fail", "wait_fail", "exit"} => last.child = "reaped"

\* C10: the rasterizer is never invoked on an Output Text that is empty or
\* begins with "Error"; when a bitmap is present, and whenever Copy sends
\* Output Text to the clipboard, Output Text is non-empty and does not begin
\* with "Error".
C10_NoErrorRendered ==
    /\ last.called => last.renderIn # << >> /\ ~Begins(last.renderIn, ErrorLit)
    /\ texture # None => output # << >> /\ ~Begins(output, ErrorLit)
    /\ last.sent # None =>
        last.sent[1] = output /\ output # << >> /\ ~Begins(output, ErrorLit)

C10_Witness ==
    /\ Succeeded
    /\ Begins(output, ErrorLit)
    /\ ~last.called
    /\ texture = None

====
